---- MODULE Spec2Model ----
(***************************************************************************)
(* Model of sully_input (src/lib.rs): the Input cursor, the Exact pattern  *)
(* variants and the Span range with its diagnostics.                       *)
(*                                                                         *)
(* A &str is modelled as its UTF-8 byte sequence; a char is modelled as    *)
(* its Unicode scalar value.  Offsets are 0-based byte offsets as in the   *)
(* source; TLA+ sequences are 1-based, so byte offset i is element i + 1.  *)
(***************************************************************************)
EXTENDS Integers, Sequences, FiniteSets

VARIABLES
    input,    \* the caller's Input cursor: [string, index, line]
    op,       \* the operation performed last
    pat,      \* the pattern of the last Input::exact call (of the loop, in LoopSpec)
    before,   \* the cursor the last Input::exact call was made on
    span,     \* the Span the last Span operation was made on
    message,  \* the message of the last Span::error call
    result    \* what the last operation returned

vars == <<input, op, pat, before, span, message, result>>

----------------------------------------------------------------------------
(* Bounds of the model *)

\* Longest buffer, in characters, of the exhaustively enumerated buffers.
MaxLen == 3

\* Longest string-literal pattern, in characters, enumerated exhaustively.
MaxPatLen == 1

\* Largest line number given to a Span built from explicit fields.
MaxSpanLine == 2

----------------------------------------------------------------------------
(* Characters and UTF-8 *)

NL == 10

\* Scalar values: '\n', 'a', U+00E9 (2 bytes), U+20AC (3 bytes).
Alphabet == {NL, 97, 233, 8364}

\* char::len_utf8
len_utf8(c) ==
    IF c < 128 THEN 1 ELSE IF c < 2048 THEN 2 ELSE IF c < 65536 THEN 3 ELSE 4

\* The UTF-8 encoding of one char (what a &str holds for it).
encode_utf8(c) ==
    IF c < 128 THEN <<c>>
    ELSE IF c < 2048 THEN <<192 + (c \div 64), 128 + (c % 64)>>
    ELSE IF c < 65536 THEN
        <<224 + (c \div 4096), 128 + ((c \div 64) % 64), 128 + (c % 64)>>
    ELSE <<240 + (c \div 262144), 128 + ((c \div 4096) % 64),
           128 + ((c \div 64) % 64), 128 + (c % 64)>>

\* The &str holding the chars cs.
RECURSIVE Str(_)
Str(cs) == IF cs = <<>> THEN <<>> ELSE encode_utf8(Head(cs)) \o Str(Tail(cs))

\* str::is_char_boundary
is_char_boundary(s, i) ==
    \/ i = 0
    \/ i = Len(s)
    \/ i > 0 /\ i < Len(s) /\ ~(s[i + 1] >= 128 /\ s[i + 1] < 192)

\* s.chars().next(), for a non-empty s: the scalar value of the first char.
first_char(s) ==
    LET b == s[1] IN
    IF b < 128 THEN b
    ELSE IF b < 224 THEN (b - 192) * 64 + (s[2] - 128)
    ELSE IF b < 240 THEN (b - 224) * 4096 + (s[2] - 128) * 64 + (s[3] - 128)
    ELSE (b - 240) * 262144 + (s[2] - 128) * 4096 + (s[3] - 128) * 64
         + (s[4] - 128)

\* Option<T>
None == [some |-> FALSE, val |-> <<>>]
Some(v) == [some |-> TRUE, val |-> v]

\* str::get(a..b): None unless a <= b <= len and both are char boundaries.
str_get(s, a, b) ==
    IF a <= b /\ b <= Len(s) /\ is_char_boundary(s, a) /\ is_char_boundary(s, b)
    THEN Some(SubSeq(s, a + 1, b))
    ELSE None

\* s.starts_with(p), on bytes
starts_with(s, p) == Len(p) <= Len(s) /\ SubSeq(s, 1, Len(p)) = p

\* s[n..] for n a char boundary of s
str_from(s, n) == SubSeq(s, n + 1, Len(s))

\* The number of '\n' chars in s: the fold over interim.chars() of Input::exact.
RECURSIVE count_newlines(_)
count_newlines(s) ==
    IF s = <<>> THEN 0
    ELSE LET c == first_char(s) IN
         (IF c = NL THEN 1 ELSE 0) + count_newlines(str_from(s, len_utf8(c)))

\* s.find('\n'): the offset of the first '\n' of s, if any
find_newline(s) ==
    IF \E i \in 1..Len(s) : s[i] = NL
    THEN Some((CHOOSE i \in 1..Len(s) :
                  s[i] = NL /\ \A j \in 1..(i - 1) : s[j] # NL) - 1)
    ELSE None

\* s.rfind('\n'): the offset of the last '\n' of s, if any
rfind_newline(s) ==
    IF \E i \in 1..Len(s) : s[i] = NL
    THEN Some((CHOOSE i \in 1..Len(s) :
                  s[i] = NL /\ \A j \in (i + 1)..Len(s) : s[j] # NL) - 1)
    ELSE None

\* str::repeat of a one-byte string
RECURSIVE repeat(_, _)
repeat(b, n) == IF n <= 0 THEN <<>> ELSE <<b>> \o repeat(b, n - 1)

\* Display of a usize: its decimal digits
RECURSIVE fmt_usize(_)
fmt_usize(n) ==
    IF n < 10 THEN <<48 + n>> ELSE fmt_usize(n \div 10) \o <<48 + (n % 10)>>

\* char::escape_debug for the chars the buffers hold: \t, \r, \n, the double
\* quote and the backslash are escaped, printable chars are written as they are.
escape_debug(c) ==
    CASE c = 9 -> <<92, 116>>
      [] c = 13 -> <<92, 114>>
      [] c = NL -> <<92, 110>>
      [] c = 34 -> <<92, 34>>
      [] c = 92 -> <<92, 92>>
      [] OTHER -> encode_utf8(c)

RECURSIVE escape_str(_)
escape_str(s) ==
    IF s = <<>> THEN <<>>
    ELSE LET c == first_char(s) IN
         escape_debug(c) \o escape_str(str_from(s, len_utf8(c)))

\* Debug of a &str: the escaped text between double quotes
fmt_str_debug(s) == <<34>> \o escape_str(s) \o <<34>>

----------------------------------------------------------------------------
(* Exact: the four pattern variants *)

\* The predicates the callers pass (closures Fn(char) -> bool).
Predicates == {"any", "is_newline", "is_ascii", "never"}

call_pred(f, c) ==
    CASE f = "any" -> TRUE
      [] f = "is_newline" -> c = NL
      [] f = "is_ascii" -> c < 128
      [] f = "never" -> FALSE

PatChar(c) == [kind |-> "char", c |-> c, s |-> <<>>, lo |-> 0, hi |-> 0, f |-> ""]
PatStr(s) == [kind |-> "str", c |-> 0, s |-> s, lo |-> 0, hi |-> 0, f |-> ""]
PatRange(lo, hi) ==
    [kind |-> "range", c |-> 0, s |-> <<>>, lo |-> lo, hi |-> hi, f |-> ""]
PatPred(f) == [kind |-> "pred", c |-> 0, s |-> <<>>, lo |-> 0, hi |-> 0, f |-> f]
NoPat == [kind |-> "none", c |-> 0, s |-> <<>>, lo |-> 0, hi |-> 0, f |-> ""]

\* impl Exact for char
exact_char(c, inp) ==
    IF starts_with(inp, encode_utf8(c))
    THEN Some(str_from(inp, Len(encode_utf8(c))))
    ELSE None

\* exact_str stripping the literal's first char only, as exact_char does.
exact_str_FirstChar(s, inp) ==
    IF starts_with(inp, s)
    THEN Some(str_from(inp, IF s = <<>> THEN 0 ELSE len_utf8(first_char(s))))
    ELSE None

\* impl Exact for &str
exact_str(s, inp) ==
    IF starts_with(inp, s) THEN Some(str_from(inp, Len(s))) ELSE None

\* exact_range taking the end of input for a match instead of returning None.
exact_range_EmptyMatches(lo, hi, inp) ==
    IF inp = <<>> THEN Some(inp)
    ELSE LET c == first_char(inp) IN
         IF lo <= c /\ c <= hi THEN Some(str_from(inp, len_utf8(c))) ELSE None

\* impl Exact for RangeInclusive<char>
exact_range(lo, hi, inp) ==
    IF inp = <<>> THEN None
    ELSE LET c == first_char(inp) IN
         IF lo <= c /\ c <= hi THEN Some(str_from(inp, len_utf8(c))) ELSE None

\* exact_pred testing the first char without consuming it.
exact_pred_Peek(f, inp) ==
    IF inp = <<>> THEN None
    ELSE IF call_pred(f, first_char(inp)) THEN Some(inp) ELSE None

\* impl Exact for F: Fn(char) -> bool
exact_pred(f, inp) ==
    IF inp = <<>> THEN None
    ELSE LET c == first_char(inp) IN
         IF call_pred(f, c) THEN Some(str_from(inp, len_utf8(c))) ELSE None

\* Exact::exact, dispatched on the pattern's type
Exact_exact(p, inp) ==
    CASE p.kind = "char" -> exact_char(p.c, inp)
      [] p.kind = "str" -> exact_str(p.s, inp)
      [] p.kind = "range" -> exact_range(p.lo, p.hi, inp)
      [] p.kind = "pred" -> exact_pred(p.f, inp)

----------------------------------------------------------------------------
(* Input *)

Input_new(string) == [string |-> string, index |-> 0, line |-> 1]

Input_curr(self) ==
    LET r == str_get(self.string, self.index, Len(self.string)) IN
    IF r.some THEN r.val ELSE <<>>

\* Input_exact advancing by the length of the rest, not of the consumed slice.
Input_exact_AddsRest(self, p) ==
    LET curr == Input_curr(self)
        rest == Exact_exact(p, curr)
    IN  IF ~rest.some THEN None
        ELSE LET delta == Len(curr) - Len(rest.val)
                 interim == SubSeq(curr, 1, delta)
                 newlines == count_newlines(interim)
             IN  Some([string |-> self.string,
                       index |-> self.index + Len(rest.val),
                       line |-> self.line + newlines])

\* Input_exact counting the newlines of the whole remaining view.
Input_exact_CountsView(self, p) ==
    LET curr == Input_curr(self)
        rest == Exact_exact(p, curr)
    IN  IF ~rest.some THEN None
        ELSE LET delta == Len(curr) - Len(rest.val)
             IN  Some([string |-> self.string,
                       index |-> self.index + delta,
                       line |-> self.line + count_newlines(curr)])

Input_exact(self, p) ==
    LET curr == Input_curr(self)
        rest == Exact_exact(p, curr)
    IN  IF ~rest.some THEN None
        ELSE LET delta == Len(curr) - Len(rest.val)
                 interim == SubSeq(curr, 1, delta)
                 newlines == count_newlines(interim)
             IN  Some([string |-> self.string,
                       index |-> self.index + delta,
                       line |-> self.line + newlines])

\* What an operation that can panic gives: a value, or the panic.
Ok(v) == [panic |-> FALSE, val |-> v]
Panic == [panic |-> TRUE, val |-> <<>>]

\* The byte count the Debug view of an Input cuts the remaining view at.
DebugLimit == 15

\* impl Debug for Input: &slice[..n] panics when n is not a char boundary.
Input_fmt(self) ==
    LET slice == Input_curr(self)
        n == IF Len(slice) < DebugLimit THEN Len(slice) ELSE DebugLimit
    IN  IF ~is_char_boundary(slice, n) THEN Panic
        ELSE Ok(<<73, 110, 112, 117, 116, 40>> \o fmt_usize(self.index)
                \o <<32, 40>> \o fmt_usize(self.line) \o <<41, 32>>
                \o fmt_str_debug(SubSeq(slice, 1, n)) \o <<41>>)

----------------------------------------------------------------------------
(* Span *)

MkSpan(string, start, end, line) ==
    [string |-> string, start |-> start, end |-> end, line |-> line]

\* Span_slice running to the end of the buffer, whatever self.end is.
Span_slice_ToEnd(self) ==
    LET r == str_get(self.string, self.start, Len(self.string)) IN
    IF r.some THEN Ok(r.val) ELSE Panic

\* Span_slice giving "" for a bad span, as Input::curr does for a bad index.
Span_slice_OrEmpty(self) ==
    LET r == str_get(self.string, self.start, self.end) IN
    IF r.some THEN Ok(r.val) ELSE Ok(<<>>)

\* Span::slice: get(start..end).expect("Bad span.")
Span_slice(self) ==
    LET r == str_get(self.string, self.start, self.end) IN
    IF r.some THEN Ok(r.val) ELSE Panic

\* Span_column measuring from the '\n' itself, not from the offset after it.
Span_column_FromNewline(self) ==
    IF ~(self.start <= Len(self.string)
         /\ is_char_boundary(self.string, self.start))
    THEN Panic
    ELSE LET string == SubSeq(self.string, 1, self.start)
             f == rfind_newline(string)
             index == IF f.some THEN f.val ELSE 0
         IN  Ok(self.start - index + 1)

\* Span::column: &self.string[..self.start] panics on a bad start.
Span_column(self) ==
    IF ~(self.start <= Len(self.string)
         /\ is_char_boundary(self.string, self.start))
    THEN Panic
    ELSE LET string == SubSeq(self.string, 1, self.start)
             f == rfind_newline(string)
             index == IF f.some THEN f.val + 1 ELSE 0
         IN  Ok(self.start - index + 1)

\* Span::error
Span_error(self, msg) ==
    LET head == str_get(self.string, 0, self.start)
        tail == str_get(self.string, self.end, Len(self.string))
    IN  IF ~head.some \/ ~tail.some THEN Panic   \* the two unwrap()
        ELSE
        LET rf == rfind_newline(head.val)
            start == IF rf.some THEN rf.val + 1 ELSE 0
            ff == find_newline(tail.val)
            end == IF ff.some THEN ff.val ELSE Len(self.string)
            column == Span_column(self)
            content == str_get(self.string, start, end)
        IN  IF column.panic \/ ~content.some \/ self.end < self.start
            THEN Panic   \* &self.string[start..end], self.end - self.start
            ELSE Ok(<<91, 69, 114, 114, 111, 114, 32>> \o fmt_usize(self.line)
                    \o <<58>> \o fmt_usize(column.val) \o <<93, 32>> \o msg
                    \o <<NL>> \o content.val \o <<NL>>
                    \o repeat(32, column.val - 1)
                    \o repeat(94, self.end - self.start))

\* impl Debug for Span
Span_fmt(self) ==
    LET slice == Span_slice(self) IN
    IF slice.panic THEN Panic
    ELSE Ok(<<83, 112, 97, 110, 40>> \o fmt_usize(self.start) \o <<46, 46>>
            \o fmt_usize(self.end) \o <<32, 40>> \o fmt_usize(self.line)
            \o <<41, 32>> \o fmt_str_debug(slice.val) \o <<41>>)

----------------------------------------------------------------------------
(* The buffers, patterns and spans the callers use *)

\* The strings of at most n chars over Alphabet.
Strings(n) == {Str(cs) : cs \in UNION {[1..k -> Alphabet] : k \in 0..n}}

\* The buffers of the tests: "1234", "Hello", "word\nword\nword".
Digits1234 == <<49, 50, 51, 52>>
Hello == <<72, 101, 108, 108, 111>>
Word == <<119, 111, 114, 100>>
WordLines == Word \o <<NL>> \o Word \o <<NL>> \o Word

\* Buffers whose remaining view reaches the cut of the Debug view: one byte
\* short of it followed by one more char, and one byte beyond it.
LongBuffers ==
    {repeat(97, DebugLimit - 1) \o encode_utf8(c) : c \in {97, 233}}
    \cup {repeat(97, DebugLimit + 1)}

Buffers == Strings(MaxLen) \cup {Digits1234, Hello, WordLines} \cup LongBuffers

CharPatterns == {PatChar(c) : c \in Alphabet \cup {72}}
StrPatterns ==
    {PatStr(s) : s \in Strings(MaxPatLen) \cup {Hello, Word \o <<NL>>}}
RangePatterns == {PatRange(48, 57), PatRange(97, 122), PatRange(128, 65535)}
PredPatterns == {PatPred(f) : f \in Predicates}
Patterns == CharPatterns \cup StrPatterns \cup RangePatterns \cup PredPatterns

\* "bad token" and the empty message
BadToken == <<98, 97, 100, 32, 116, 111, 107, 101, 110>>
Messages == {BadToken, <<>>}

\* The spans a caller can write over a buffer, valid or not.
Spans(string) ==
    {MkSpan(string, s, e, l) :
        s \in 0..(Len(string) + 1), e \in 0..(Len(string) + 1),
        l \in 1..MaxSpanLine}

NoSpan == MkSpan(<<>>, 0, 0, 0)

----------------------------------------------------------------------------
(* The state machine *)

Init ==
    /\ \E string \in Buffers : input = Input_new(string)
    /\ op = "new"
    /\ pat = NoPat
    /\ before = input
    /\ span = NoSpan
    /\ message = <<>>
    /\ result = None

\* A behaviour is one scenario of use.  A cursor scenario scans the buffer
\* with exact, looks at the cursor's Debug view and slices the span of a
\* match.  A span scenario is one operation on a span written with explicit
\* fields over the buffer, as test_debug_span writes it: a Span holds no
\* cursor and none of its operations reads one.
Scanning == op \in {"new", "exact", "debug", "roundtrip"}

\* input.exact(p); the caller goes on from the returned cursor, if any.
DoExact(p) ==
    LET r == Input_exact(input, p) IN
    /\ op' = "exact"
    /\ pat' = p
    /\ before' = input
    /\ result' = r
    /\ input' = IF r.some THEN r.val ELSE input
    /\ span' = NoSpan
    /\ message' = <<>>

ExactChar ==
    /\ Scanning
    /\ \E p \in CharPatterns : DoExact(p)

ExactStr ==
    /\ Scanning
    /\ \E p \in StrPatterns : DoExact(p)

ExactRange ==
    /\ Scanning
    /\ \E p \in RangePatterns : DoExact(p)

ExactPred ==
    /\ Scanning
    /\ \E p \in PredPatterns : DoExact(p)

\* format!("{:?}", input)
DebugInput ==
    /\ Scanning
    /\ op' = "debug"
    /\ result' = Input_fmt(input)
    /\ pat' = NoPat
    /\ before' = input
    /\ span' = NoSpan
    /\ message' = <<>>
    /\ UNCHANGED input

\* The span over what the last successful exact consumed, and its slice.
RoundTrip ==
    /\ op = "exact"
    /\ result.some
    /\ LET s == MkSpan(input.string, before.index, input.index, before.line) IN
       /\ op' = "roundtrip"
       /\ span' = s
       /\ result' = Span_slice(s)
    /\ UNCHANGED <<input, pat, before, message>>

DoSpan(name, s, msg, r) ==
    /\ op' = name
    /\ span' = s
    /\ message' = msg
    /\ result' = r
    /\ pat' = NoPat
    /\ before' = input
    /\ UNCHANGED input

SpanSlice ==
    /\ op = "new"
    /\ \E s \in Spans(input.string) : DoSpan("slice", s, <<>>, Span_slice(s))

SpanColumn ==
    /\ op = "new"
    /\ \E s \in Spans(input.string) : DoSpan("column", s, <<>>, Span_column(s))

SpanError ==
    /\ op = "new"
    /\ \E s \in Spans(input.string), msg \in Messages :
          DoSpan("error", s, msg, Span_error(s, msg))

DebugSpan ==
    /\ op = "new"
    /\ \E s \in Spans(input.string) : DoSpan("fmt", s, <<>>, Span_fmt(s))

Next ==
    \/ ExactChar
    \/ ExactStr
    \/ ExactRange
    \/ ExactPred
    \/ DebugInput
    \/ SpanSlice
    \/ SpanColumn
    \/ SpanError
    \/ DebugSpan
    \/ RoundTrip

Spec == Init /\ [][Next]_vars

\* A caller's loop applying one pattern again and again until it fails.
LoopInit ==
    /\ \E string \in Buffers : input = Input_new(string)
    /\ op = "new"
    /\ pat \in Patterns
    /\ before = input
    /\ span = NoSpan
    /\ message = <<>>
    /\ result = None

LoopStep ==
    /\ op = "new" \/ (op = "exact" /\ result.some)
    /\ DoExact(pat)

LoopNext == LoopStep

LoopSpec == LoopInit /\ [][LoopNext]_vars /\ WF_vars(LoopStep)

----------------------------------------------------------------------------
(* What the properties are stated with *)

\* The number of '\n' bytes of s at the offsets a .. b - 1.
NewlinesBetween(s, a, b) == Cardinality({i \in (a + 1)..b : s[i] = NL})

\* The width of the char a UTF-8 leading byte starts.
WidthOfLead(b) == IF b < 128 THEN 1 ELSE IF b < 224 THEN 2 ELSE IF b < 240 THEN 3 ELSE 4

\* The offsets at which a char of s starts, and the end of s.
RECURSIVE CharOffsetsFrom(_, _)
CharOffsetsFrom(s, i) ==
    IF i >= Len(s) THEN {Len(s)}
    ELSE {i} \cup CharOffsetsFrom(s, i + WidthOfLead(s[i + 1]))

CharOffsets(s) == CharOffsetsFrom(s, 0)

ValidOffset(s, i) == i \in CharOffsets(s)

\* The remaining view of a cursor with a valid index.
View(c) == SubSeq(c.string, c.index + 1, Len(c.string))

\* The first char of a non-empty view, as the bytes that encode it.
FirstCharBytes(v) == SubSeq(v, 1, WidthOfLead(v[1]))

\* The chars the buffers and patterns are written with.
KnownChars == (0..127) \cup Alphabet

\* The pattern matches at the very start of the view.
MatchesAtStart(p, v) ==
    CASE p.kind = "str" -> Len(p.s) <= Len(v) /\ \A i \in 1..Len(p.s) : v[i] = p.s[i]
      [] p.kind = "char" -> v # <<>> /\ FirstCharBytes(v) = encode_utf8(p.c)
      [] p.kind = "range" ->
            v # <<>> /\ \E c \in KnownChars :
                          /\ p.lo <= c /\ c <= p.hi
                          /\ FirstCharBytes(v) = encode_utf8(c)
      [] p.kind = "pred" ->
            v # <<>> /\ \E c \in KnownChars :
                          /\ call_pred(p.f, c)
                          /\ FirstCharBytes(v) = encode_utf8(c)

\* The bytes a match of p at the start of v consumes.
ConsumedLength(p, v) ==
    IF p.kind = "str" THEN Len(p.s)
    ELSE IF p.kind = "char" THEN len_utf8(p.c)
    ELSE WidthOfLead(v[1])

\* The offset just after the nearest '\n' before offset i, or 0.
LineStart(s, i) ==
    LET nls == {j \in 1..i : s[j] = NL} IN
    IF nls = {} THEN 0 ELSE CHOOSE j \in nls : \A k \in nls : k <= j

\* The offset of the first '\n' at or after offset i, or the end of s.
LineEnd(s, i) ==
    LET nls == {j \in (i + 1)..Len(s) : s[j] = NL} IN
    IF nls = {} THEN Len(s) ELSE (CHOOSE j \in nls : \A k \in nls : j <= k) - 1

ValidSpan(sp) ==
    /\ sp.start <= sp.end
    /\ sp.end <= Len(sp.string)
    /\ ValidOffset(sp.string, sp.start)
    /\ ValidOffset(sp.string, sp.end)

\* The first n chars of v, or all of v when it has fewer.
RECURSIVE TakeChars(_, _)
TakeChars(v, n) ==
    IF n = 0 \/ v = <<>> THEN <<>>
    ELSE FirstCharBytes(v) \o TakeChars(str_from(v, WidthOfLead(v[1])), n - 1)

\* The diagnostic the format of Span::error describes.
ExpectedError(sp, msg) ==
    LET from == LineStart(sp.string, sp.start)
        to == LineEnd(sp.string, sp.start)
        column == sp.start - from + 1
    IN  <<91, 69, 114, 114, 111, 114, 32>> \o fmt_usize(sp.line) \o <<58>>
        \o fmt_usize(column) \o <<93, 32>> \o msg \o <<NL>>
        \o SubSeq(sp.string, from + 1, to) \o <<NL>>
        \o repeat(32, column - 1) \o repeat(94, sp.end - sp.start)

\* The Debug view of a cursor showing the next up-to-15 chars.
ExpectedDebug(c) ==
    <<73, 110, 112, 117, 116, 40>> \o fmt_usize(c.index) \o <<32, 40>>
    \o fmt_usize(c.line) \o <<41, 32>>
    \o fmt_str_debug(TakeChars(View(c), DebugLimit)) \o <<41>>

----------------------------------------------------------------------------
(* Properties *)

\* C1: every cursor reached from Input::new by successful exact calls has
\* line = 1 + the number of '\n' in buffer[0..index].
C1_LineCountsNewlines ==
    /\ input.index <= Len(input.string)
    /\ input.line = 1 + NewlinesBetween(input.string, 0, input.index)

C1_Witness ==
    /\ op = "exact"
    /\ result.some
    /\ before.index > 0
    /\ before.line > 1
    /\ input.line > before.line

\* C2: for a span with valid offsets start <= end, Span::error completes and
\* returns the header, the full source line containing start, and column - 1
\* spaces followed by end - start carets.
C2_ErrorReport ==
    (op = "error" /\ ValidSpan(span)) =>
        /\ ~result.panic
        /\ result.val = ExpectedError(span, message)

\* C3: when the pattern does not match at the start of the remaining view,
\* exact returns None and the caller's cursor is what it was.
C3_FailureLeavesCursor ==
    (op = "exact" /\ ~MatchesAtStart(pat, View(before))) =>
        /\ result = None
        /\ input = before

C3_Witness ==
    /\ op = "exact"
    /\ pat = PatRange(48, 57)
    /\ before.index > 0
    /\ View(before) = <<>>
    /\ result = None

\* C4: a successful exact returns a cursor over the same buffer with
\* index = old index + consumed length and line = old line + the newlines of
\* the consumed slice; the consumed length is the width of the first char for
\* a char, range or predicate pattern and the literal's length for a string.
C4_SuccessAdvances ==
    (op = "exact" /\ result.some) =>
        LET n == ConsumedLength(pat, View(before)) IN
        /\ result.val.string = before.string
        /\ result.val.index = before.index + n
        /\ result.val.line = before.line
              + NewlinesBetween(before.string, before.index, before.index + n)

C4_Witness ==
    /\ op = "exact"
    /\ result.some
    /\ pat.kind = "str"
    /\ result.val.index >= before.index + 2
    /\ result.val.line > before.line

\* C5: every cursor reached from Input::new by exact calls has
\* 0 <= index <= length(buffer), with index on a char boundary.
C5_IndexOnBoundary ==
    /\ input.index \in 0..Len(input.string)
    /\ ValidOffset(input.string, input.index)

C5_Witness ==
    /\ op = "exact"
    /\ result.some
    /\ pat.kind = "range"
    /\ before.index > 0
    /\ input.index >= before.index + 2
    /\ input.index < Len(input.string)

\* C6: the span from the cursor before a successful exact to the cursor after
\* it has start <= end, and its slice is the text the match consumed.
C6_RoundTrip ==
    (op = "roundtrip") =>
        LET v == View(before) IN
        /\ span.start <= span.end
        /\ ~result.panic
        /\ result.val = SubSeq(v, 1, ConsumedLength(pat, v))
        /\ pat.kind = "str" => result.val = pat.s
        /\ pat.kind = "char" => result.val = encode_utf8(pat.c)

C6_Witness ==
    /\ op = "roundtrip"
    /\ ~result.panic
    /\ before.index > 0
    /\ Len(result.val) >= 2
    /\ input.index < Len(input.string)

\* C7: for a span whose start is a valid offset, column() is start minus the
\* offset just after the nearest preceding '\n' (or 0) plus 1; it is >= 1,
\* and 1 when start is 0 or just after a '\n'.
C7_Column ==
    (op = "column" /\ ValidOffset(span.string, span.start)) =>
        /\ ~result.panic
        /\ result.val = span.start - LineStart(span.string, span.start) + 1
        /\ result.val >= 1
        /\ (span.start = 0 \/ span.string[span.start] = NL) => result.val = 1

C7_Witness ==
    /\ op = "column"
    /\ ValidOffset(span.string, span.start)
    /\ ~result.panic
    /\ LineStart(span.string, span.start) > 0
    /\ result.val >= 2

\* C8: slice() returns buffer[start..end) when start <= end <= length and both
\* offsets are char boundaries, and panics in every other case.
C8_Slice ==
    (op = "slice") =>
        IF ValidSpan(span)
        THEN result = Ok(SubSeq(span.string, span.start + 1, span.end))
        ELSE result = Panic

C8_Witness ==
    /\ op = "slice"
    /\ span.start < span.end
    /\ span.end <= Len(span.string)
    /\ ~ValidSpan(span)
    /\ result = Panic

\* C9: the Debug view of every reachable cursor completes and shows the
\* offset, the line and the next up-to-15 chars of the remaining view.
C9_DebugView ==
    (op = "debug") =>
        /\ ~result.panic
        /\ result.val = ExpectedDebug(input)

\* C10 as stated: every successful exact, whatever the pattern, ends at a
\* strictly larger index.
C10_NoZeroWidthPattern ==
    (op = "exact" /\ result.some) => result.val.index > before.index

\* C10: a successful exact of any pattern but the empty string literal ends at
\* a strictly larger index, and applying such a pattern again and again
\* eventually fails; the empty string literal always succeeds where it is.
C10_OnlyEmptyStrIsZeroWidth ==
    /\ []((op = "exact" /\ result.some /\ pat # PatStr(<<>>))
            => result.val.index > before.index)
    /\ []((op = "exact" /\ pat = PatStr(<<>>)) => result = Some(before))
    /\ (pat # PatStr(<<>>)) => <>(op = "exact" /\ ~result.some)

C10_Witness ==
    /\ op = "exact"
    /\ pat.kind = "pred"
    /\ ~result.some
    /\ before.index >= 2

====
